---- MODULE Spec2Model ----
(***************************************************************************)
(* FreeShow: the browser-side SpectrumAnalyzer                             *)
(* (src/frontend/audio/spectrumAnalyzer.ts) and the main-process helpers   *)
(* saveRecording / logError / catchErrors (electron/IPC/responsesMain).    *)
(*                                                                         *)
(* The analyzer is a single-threaded object driven by three kinds of       *)
(* events: calls of its public methods, animation frames that fire, and    *)
(* the return of the user-supplied update callback.  The callback is user  *)
(* code that runs in the middle of updateFrequencyData (line 147) and may  *)
(* itself call start(), stop() or dispose(); the activation that invoked   *)
(* it is suspended until the callback returns and then executes line 151.  *)
(* Float32 values are carried as fixed-point integers (FP units per 1.0).  *)
(***************************************************************************)
EXTENDS Integers, Sequences, FiniteSets, TLC

----------------------------------------------------------------------------
(* Bounds of the model *)

StartTime == 100        \* Date.now() when the session is first observed
TickStep == 25          \* the clock advances in steps of TickStep ms
MaxTicks == 2           \* number of clock steps explored
MaxFrameId == 3         \* animation frames requested in one behaviour
MaxDepth == 2           \* nesting of update callbacks (callback -> start -> callback)

MaxTime == StartTime + MaxTicks * TickStep

----------------------------------------------------------------------------
(* Program constants *)

updateInterval == 50
DefaultBinCount == 128
DefaultFFTSize == 256
DefaultSampleRate == 48000
numBars == 100
minFreq == 20
maxFreq == 20000

\* smoothingFactor = 0.15, as hundredths
smoothingFactor == 15

\* fixed-point scale of the Float32 values (units per 1.0)
FP == 100

Undefined == "undefined"
Callbacks == {"cbA", "cbB"}

\* animationFrame: null is 0; requestAnimationFrame returns ids >= 1, so
\* the truthiness test of line 82 is the non-null test
Null == 0

\* the analyser nodes AudioAnalyser.getAnalysers() can return
AnalyserNodes ==
    { [fftSize |-> 32, sampleRate |-> 48000, frequencyBinCount |-> 16],
      [fftSize |-> 256, sampleRate |-> 22050, frequencyBinCount |-> 128] }

AnalyserLists == {<<>>} \cup { <<a>> : a \in AnalyserNodes }

\* what getByteFrequencyData can write: one byte (0..255) per bin
Signals == {"silence", "full", "ramp"}

getByteFrequencyData(sig, n) ==
    [i \in 1..n |->
        CASE sig = "silence" -> 0
          [] sig = "full" -> 255
          [] OTHER -> ((i - 1) * 40) % 256]

Zeros(n) == [i \in 1..n |-> 0]

----------------------------------------------------------------------------
VARIABLES
    frequencyData,          \* Uint8Array
    smoothedFrequencyData,  \* Float32Array, fixed point
    animationFrame,         \* number | null
    isAnalyzing,
    lastUpdateTime,
    actualFFTSize,
    actualSampleRate,
    onUpdateCallback,
    \* environment
    now,                    \* Date.now()
    analysers,              \* AudioAnalyser.getAnalysers()
    rafQueue,               \* frames requested and neither fired nor cancelled
    nextFrameId,            \* next id requestAnimationFrame returns
    depth,                  \* suspended updateFrequencyData activations (inside a callback)
    \* history
    op,                     \* the operation of the last step
    arg,                    \* its argument
    prevUpdateAt,           \* time of the update before the last one (-1: none)
    lastUpdateAt,           \* time of the last update (-1: none)
    disposed                \* dispose() was called and start() was not called since

avars == <<frequencyData, smoothedFrequencyData, animationFrame, isAnalyzing,
           lastUpdateTime, actualFFTSize, actualSampleRate, onUpdateCallback,
           now, analysers, rafQueue, nextFrameId, depth,
           op, arg, prevUpdateAt, lastUpdateAt, disposed>>

VARIABLES
    error_log,      \* error_log.store: key -> array of ErrorLog
    systemOpened,   \* module variable of saveRecording
    isProd,
    handlers,       \* "uncaughtException" listeners registered by catchErrors
    \* effects and history of the main process
    opened,         \* folders passed to openInSystem, in call order
    written,        \* file paths passed to writeFile, in call order
    saved,          \* the msg of every saveRecording call, in call order
    history,        \* key -> time stamps of all entries ever logged under the key
    mop,            \* the last main-process operation
    calls           \* number of main-process operations so far

mvars == <<error_log, systemOpened, isProd, handlers, opened, written, saved,
           history, mop, calls>>

VARIABLES
    mainWindow,         \* BrowserWindow | null
    outputs,            \* OutputHelper.getAllOutputs()
    screensType,        \* the type argument of the last getScreens call
    sourcesPromise,     \* the promise desktopCapturer.getSources returned
    screensPromise,     \* the promise getScreens returned
    spectrumColor,      \* the last getSpectrumColor call: amplitude and colour
    prevSpectrumColor   \* the call before it

qvars == <<mainWindow, outputs, screensType, sourcesPromise, screensPromise,
           spectrumColor, prevSpectrumColor>>

vars == <<avars, mvars, qvars>>

\* the analyzer object together with the frame queue it acts on
Self ==
    [frequencyData |-> frequencyData,
     smoothedFrequencyData |-> smoothedFrequencyData,
     animationFrame |-> animationFrame,
     isAnalyzing |-> isAnalyzing,
     lastUpdateTime |-> lastUpdateTime,
     actualFFTSize |-> actualFFTSize,
     actualSampleRate |-> actualSampleRate,
     onUpdateCallback |-> onUpdateCallback,
     rafQueue |-> rafQueue,
     nextFrameId |-> nextFrameId,
     depth |-> depth,
     prevUpdateAt |-> prevUpdateAt,
     lastUpdateAt |-> lastUpdateAt]

Commit(s) ==
    /\ frequencyData' = s.frequencyData
    /\ smoothedFrequencyData' = s.smoothedFrequencyData
    /\ animationFrame' = s.animationFrame
    /\ isAnalyzing' = s.isAnalyzing
    /\ lastUpdateTime' = s.lastUpdateTime
    /\ actualFFTSize' = s.actualFFTSize
    /\ actualSampleRate' = s.actualSampleRate
    /\ onUpdateCallback' = s.onUpdateCallback
    /\ rafQueue' = s.rafQueue
    /\ nextFrameId' = s.nextFrameId
    /\ depth' = s.depth
    /\ prevUpdateAt' = s.prevUpdateAt
    /\ lastUpdateAt' = s.lastUpdateAt

----------------------------------------------------------------------------
(* The analyzer's methods, as functions of the object *)

\* this.animationFrame = requestAnimationFrame(() => this.updateFrequencyData())
requestAnimationFrame(s) ==
    [s EXCEPT !.animationFrame = s.nextFrameId,
              !.rafQueue = @ \cup {s.nextFrameId},
              !.nextFrameId = @ + 1]

updateAnalyserProperties(s, list) ==
    IF Len(list) > 0
    THEN LET analyser == list[1]
             actualBinCount == analyser.frequencyBinCount
             t == [s EXCEPT !.actualFFTSize = analyser.fftSize,
                            !.actualSampleRate = analyser.sampleRate]
         IN IF Len(s.frequencyData) # actualBinCount
            THEN [t EXCEPT !.frequencyData = Zeros(actualBinCount),
                           !.smoothedFrequencyData = Zeros(actualBinCount)]
            ELSE t
    ELSE s

\* lines 141-143: smoothingFactor * raw + (1 - smoothingFactor) * smoothed,
\* stored into the Float32Array (rounded to the nearest representable value)
Smooth(raw, smoothed) ==
    (smoothingFactor * raw * FP + (100 - smoothingFactor) * smoothed + 50) \div 100

\* variant: a resize at lines 130-133 carries the old smoothing history over
\* into the new array instead of starting from zeros
SampleAndSmooth_keepHistory(s, list, t, sig) ==
    LET s1 == [s EXCEPT !.lastUpdateTime = t,
                        !.prevUpdateAt = s.lastUpdateAt,
                        !.lastUpdateAt = t]
    IN IF Len(list) > 0
       THEN LET analyser == list[1]
                n == analyser.frequencyBinCount
                tempData == getByteFrequencyData(sig, n)
                old == s1.smoothedFrequencyData
            IN [s1 EXCEPT !.frequencyData = tempData,
                          !.smoothedFrequencyData =
                              [i \in 1..n |->
                                  Smooth(tempData[i], IF i <= Len(old) THEN old[i] ELSE 0)]]
       ELSE s1

\* lines 117-147, up to the invocation of the callback
SampleAndSmooth(s, list, t, sig) ==
    LET s1 == [s EXCEPT !.lastUpdateTime = t,
                        !.prevUpdateAt = s.lastUpdateAt,
                        !.lastUpdateAt = t]
    IN IF Len(list) > 0
       THEN LET analyser == list[1]
                n == analyser.frequencyBinCount
                tempData == getByteFrequencyData(sig, n)
                s2 == IF Len(s1.frequencyData) # n
                      THEN [s1 EXCEPT !.frequencyData = Zeros(n),
                                      !.smoothedFrequencyData = Zeros(n)]
                      ELSE s1
            IN [s2 EXCEPT !.frequencyData = tempData,
                          !.smoothedFrequencyData =
                              [i \in 1..n |-> Smooth(tempData[i], s2.smoothedFrequencyData[i])]]
       ELSE s1

\* variant: the throttle test of line 112 is missing
updateFrequencyData_noThrottle(s, list, t, sig) ==
    IF ~s.isAnalyzing THEN s
    ELSE LET u == SampleAndSmooth(s, list, t, sig)
         IN IF Len(list) > 0 /\ u.onUpdateCallback # Undefined
            THEN [u EXCEPT !.depth = @ + 1]
            ELSE requestAnimationFrame(u)

\* variant: the isAnalyzing test of line 107 is missing
updateFrequencyData_noRunningTest(s, list, t, sig) ==
    IF t - s.lastUpdateTime < updateInterval THEN requestAnimationFrame(s)
    ELSE LET u == SampleAndSmooth(s, list, t, sig)
         IN IF Len(list) > 0 /\ u.onUpdateCallback # Undefined
            THEN [u EXCEPT !.depth = @ + 1]
            ELSE requestAnimationFrame(u)

\* updateFrequencyData (lines 106-152) up to the point where it either
\* returns or hands control to the update callback; in the latter case the
\* activation is suspended (depth + 1) and line 151 runs when the callback
\* returns (CallbackReturn)
updateFrequencyData(s, list, t, sig) ==
    IF ~s.isAnalyzing THEN s
    ELSE IF t - s.lastUpdateTime < updateInterval THEN requestAnimationFrame(s)
    ELSE LET u == SampleAndSmooth(s, list, t, sig)
         IN IF Len(list) > 0 /\ u.onUpdateCallback # Undefined
            THEN [u EXCEPT !.depth = @ + 1]
            ELSE requestAnimationFrame(u)

\* variant: the early return of line 67 is missing
start_noRunningTest(s, onUpdate, list, t, sig) ==
    LET p == updateAnalyserProperties(s, list)
        q == [p EXCEPT !.onUpdateCallback = onUpdate,
                       !.isAnalyzing = TRUE]
    IN updateFrequencyData(q, list, t, sig)

start(s, onUpdate, list, t, sig) ==
    IF s.isAnalyzing THEN s
    ELSE LET p == updateAnalyserProperties(s, list)
             q == [p EXCEPT !.onUpdateCallback = onUpdate,
                            !.isAnalyzing = TRUE]
         IN updateFrequencyData(q, list, t, sig)

\* cancelAnimationFrame of an id that already fired is a no-op
stop(s) ==
    LET c == IF s.animationFrame # Null
             THEN [s EXCEPT !.rafQueue = @ \ {s.animationFrame},
                            !.animationFrame = Null]
             ELSE s
    IN [c EXCEPT !.isAnalyzing = FALSE,
                 !.onUpdateCallback = Undefined]

\* variant: the arrays are not cleared
dispose_noFill(s) == stop(s)

dispose(s) ==
    LET c == stop(s)
    IN [c EXCEPT !.frequencyData = Zeros(Len(c.frequencyData)),
                 !.smoothedFrequencyData = Zeros(Len(c.smoothedFrequencyData))]

isRunning == isAnalyzing

getFrequencyData == smoothedFrequencyData

----------------------------------------------------------------------------
(* Queries on the frequency data.  JavaScript index i is position i + 1. *)

\* array[i] || 0
At(array, i) == IF i + 1 \in DOMAIN array THEN array[i + 1] ELSE 0

\* Math.round(num / den) for den > 0: the nearest integer, halves upwards
Round(num, den) == (2 * num + den) \div (2 * den)

Floor(num, den) == num \div den

Ceil(num, den) == -((-num) \div den)

\* frequencies (Hz) a caller asks for
QueryFrequencies == {0, 20, 1800, 2250, 3000, 9000, 24000}

frequencyToBin(frequency, list, fft, rate) ==
    IF Len(list) > 0
    THEN Round(frequency * list[1].fftSize, list[1].sampleRate)
    ELSE Round(frequency * fft, rate)

\* getFrequencyAmplitude (lines 174-190): binIndex is already an integer, so
\* lowerBin = upperBin = binIndex and fraction = 0
getFrequencyAmplitude(frequency, smoothed, list, fft, rate) ==
    LET binIndex == frequencyToBin(frequency, list, fft, rate)
        maxBin == Len(smoothed) - 1
    IN IF binIndex <= 0 THEN At(smoothed, 0)
       ELSE IF binIndex >= maxBin THEN At(smoothed, maxBin)
       ELSE LET lowerBin == binIndex
                upperBin == binIndex
                fraction == binIndex - lowerBin
                lowerValue == At(smoothed, lowerBin)
                upperValue == At(smoothed, upperBin)
            IN lowerValue + (upperValue - lowerValue) * fraction

\* C7: getFrequencyAmplitude(frequency) is the linear interpolation of the
\* two smoothed bins around the position frequency * fftSize / sampleRate when
\* that position lies strictly between two bin indices inside the array, bin 0
\* when the position is at or below 0, and the last bin (0 if missing) when it
\* is at or above the last index.
C7_Interpolated ==
    \A frequency \in QueryFrequencies :
        LET fft == IF Len(analysers) > 0 THEN analysers[1].fftSize ELSE actualFFTSize
            rate == IF Len(analysers) > 0 THEN analysers[1].sampleRate ELSE actualSampleRate
            num == frequency * fft          \* position = num / rate
            maxBin == Len(smoothedFrequencyData) - 1
            lowerBin == Floor(num, rate)
            result == getFrequencyAmplitude(frequency, smoothedFrequencyData,
                                            analysers, actualFFTSize, actualSampleRate)
        IN /\ num <= 0 => result = At(smoothedFrequencyData, 0)
           /\ num >= maxBin * rate => result = At(smoothedFrequencyData, maxBin)
           /\ (num > 0 /\ num < maxBin * rate /\ num % rate # 0)
                => (result - smoothedFrequencyData[lowerBin + 1]) * rate
                     = (smoothedFrequencyData[lowerBin + 2] - smoothedFrequencyData[lowerBin + 1])
                          * (num - lowerBin * rate)

(* Fixed-point scales of generateSpectrumBars:                             *)
(*   logarithms           LS units per 1.0                                 *)
(*   bin weights          WS units per 1.0                                 *)
(*   x and width          PX units per pixel                               *)
(*   height               10 * LS units per pixel                          *)
(*   normalized amplitude 255 * FP units per 1.0                           *)
LS == 4096
LogBits == 12
WS == 1000
PX == 100
MaxHz == 32768

Max(a, b) == IF a > b THEN a ELSE b

Lesser(a, b) == IF a < b THEN a ELSE b

\* binary digits of log10 of a mantissa m / LS in [1, 10), by repeated squaring
RECURSIVE Log10Frac(_, _, _)
Log10Frac(m, k, acc) ==
    IF k > LogBits THEN acc
    ELSE LET sq == (m * m) \div LS
         IN IF sq >= 10 * LS
            THEN Log10Frac(sq \div 10, k + 1, acc + LS \div (2 ^ k))
            ELSE Log10Frac(sq, k + 1, acc)

\* Math.log10(m / LS) * LS for m >= LS
RECURSIVE log10(_)
log10(m) ==
    IF m >= 10 * LS THEN LS + log10(m \div 10) ELSE Log10Frac(m, 1, 0)

\* Math.pow(10, y / LS) in Hz: the largest frequency whose log10 is at most y
RECURSIVE Pow10Between(_, _, _)
Pow10Between(lo, hi, y) ==
    IF hi - lo <= 1 THEN lo
    ELSE LET mid == (lo + hi) \div 2
         IN IF log10(mid * LS) <= y
            THEN Pow10Between(mid, hi, y)
            ELSE Pow10Between(lo, mid, y)

pow10(y) == Pow10Between(1, MaxHz, y)

\* lines 270-285: the frequency at which bar i starts, on the logarithmic scale
BarFrequency(i, maxDisplayFreq) ==
    LET logMin == log10(minFreq * LS)
        logMax == log10(maxDisplayFreq * LS)
    IN pow10(logMin + (i * (logMax - logMin)) \div numBars)

\* the frequencies of the bars lo..hi, in order
RECURSIVE BarFrequencies(_, _, _)
BarFrequencies(lo, hi, maxDisplayFreq) ==
    IF lo > hi THEN << >>
    ELSE IF lo = hi THEN << BarFrequency(lo, maxDisplayFreq) >>
    ELSE LET mid == (lo + hi) \div 2
         IN BarFrequencies(lo, mid, maxDisplayFreq) \o BarFrequencies(mid + 1, hi, maxDisplayFreq)

DisplayFrequencies ==
    {maxFreq} \cup { Lesser(maxFreq, a.sampleRate \div 2) : a \in AnalyserNodes }

\* the bar frequencies of every display range, computed once:
\* pairs <<maxDisplayFreq, frequencies of bars 0..numBars>>
FrequencyGrid ==
    { <<m, BarFrequencies(0, numBars, m)>> : m \in DisplayFrequencies }

GridFrequency(maxDisplayFreq, i) ==
    (CHOOSE g \in FrequencyGrid : g[1] = maxDisplayFreq)[2][i + 1]

\* lines 219-238: the loop over the bins startBin..endBin; returns
\* <<weightedSum, totalWeight>>
RECURSIVE SumBins(_, _, _, _, _, _, _, _)
SumBins(bin, endBin, startFreq, endFreq, rate, fft, smoothed, acc) ==
    IF bin > endBin \/ bin >= Len(smoothed) THEN acc
    ELSE LET overlapStart == Max(startFreq * fft, bin * rate)
             overlapEnd == Lesser(endFreq * fft, (bin + 1) * rate)
             overlapAmount == Max(0, overlapEnd - overlapStart)
             weight == (overlapAmount * WS + rate \div 2) \div rate
             binValue == At(smoothed, bin)
         IN SumBins(bin + 1, endBin, startFreq, endFreq, rate, fft, smoothed,
                    IF overlapAmount > 0
                    THEN <<acc[1] + binValue * weight, acc[2] + weight>>
                    ELSE acc)

\* variant: the weighted sum is not divided by the total weight
getAveragedFrequencyAmplitude_sum(startFreq, endFreq, rate, fft, smoothed) ==
    LET totalBins == Len(smoothed)
        startBin == Max(0, Floor(startFreq * fft, rate))
        endBin == Lesser(totalBins - 1, Ceil(endFreq * fft, rate))
        sums == SumBins(startBin, endBin, startFreq, endFreq, rate, fft, smoothed, <<0, 0>>)
    IN IF startBin = endBin
       THEN At(smoothed, startBin)
       ELSE IF sums[2] > 0 THEN sums[1] \div WS ELSE 0

\* getAveragedFrequencyAmplitude (lines 195-241); frequencyResolution is
\* rate / fft, so a frequency f lies at bin position f * fft / rate
getAveragedFrequencyAmplitude(startFreq, endFreq, rate, fft, smoothed) ==
    LET totalBins == Len(smoothed)
        startBin == Max(0, Floor(startFreq * fft, rate))
        endBin == Lesser(totalBins - 1, Ceil(endFreq * fft, rate))
    IN IF startBin = endBin
       THEN IF startBin < totalBins - 1
            THEN LET currentValue == At(smoothed, startBin)
                     nextValue == At(smoothed, startBin + 1)
                 IN currentValue
                      + ((nextValue - currentValue) * (startFreq * fft - startBin * rate)) \div rate
            ELSE At(smoothed, startBin)
       ELSE LET sums == SumBins(startBin, endBin, startFreq, endFreq, rate, fft,
                                smoothed, <<0, 0>>)
            IN IF sums[2] > 0 THEN sums[1] \div sums[2] ELSE 0

\* one iteration of the loop of lines 273-302
SpectrumBar(i, canvasWidth, canvasHeight, maxDisplayFreq, rate, fft, smoothed) ==
    LET barWidth == (canvasWidth * PX) \div numBars
        frequency == GridFrequency(maxDisplayFreq, i)
        nextFrequency == IF i = numBars - 1 THEN maxDisplayFreq
                         ELSE GridFrequency(maxDisplayFreq, i + 1)
        amplitude == getAveragedFrequencyAmplitude(frequency, nextFrequency, rate, fft, smoothed)
        \* normalizedAmplitude * 9 + 1, as a mantissa
        logAmplitude == IF amplitude > 0
                        THEN log10(((amplitude * 9 + 255 * FP) * LS) \div (255 * FP))
                        ELSE 0
        height == logAmplitude * canvasHeight * 9
    IN [x |-> i * barWidth,
        width |-> barWidth - PX,
        height |-> Max(0, height),
        frequency |-> frequency,
        amplitude |-> amplitude]

\* the loop of lines 273-302 for the bars lo..hi, in order
RECURSIVE PushBars(_, _, _, _, _, _, _, _)
PushBars(lo, hi, canvasWidth, canvasHeight, maxDisplayFreq, rate, fft, smoothed) ==
    IF lo > hi THEN << >>
    ELSE IF lo = hi
    THEN << SpectrumBar(lo, canvasWidth, canvasHeight, maxDisplayFreq, rate, fft, smoothed) >>
    ELSE LET mid == (lo + hi) \div 2
         IN PushBars(lo, mid, canvasWidth, canvasHeight, maxDisplayFreq, rate, fft, smoothed)
              \o PushBars(mid + 1, hi, canvasWidth, canvasHeight, maxDisplayFreq, rate, fft, smoothed)

\* generateSpectrumBars (lines 246-305)
generateSpectrumBars(canvasWidth, canvasHeight, smoothed, list, fft, rate) ==
    LET hasAnalyser == Len(list) > 0
        sampleRate == IF hasAnalyser THEN list[1].sampleRate ELSE rate
        fftSize == IF hasAnalyser THEN list[1].fftSize ELSE fft
        maxDisplayFreq == IF hasAnalyser THEN Lesser(maxFreq, sampleRate \div 2) ELSE maxFreq
    IN PushBars(0, numBars - 1, canvasWidth, canvasHeight, maxDisplayFreq, sampleRate, fftSize, smoothed)

\* canvas sizes a caller passes
CanvasSizes == { <<0, 0>>, <<800, 200>> }

\* C8: generateSpectrumBars returns exactly numBars bars in every state of
\* the analyzer; bar i has x = i * canvasWidth / numBars, a normalized
\* amplitude in [0, 1] and a height in [0, 0.9 * canvasHeight].
C8_Bars ==
    \A size \in CanvasSizes :
        LET bars == generateSpectrumBars(size[1], size[2], smoothedFrequencyData,
                                         analysers, actualFFTSize, actualSampleRate)
        IN /\ Len(bars) = numBars
           /\ \A i \in 1..Len(bars) :
                 /\ bars[i].x * numBars = (i - 1) * size[1] * PX
                 /\ bars[i].amplitude >= 0
                 /\ bars[i].amplitude <= 255 * FP
                 /\ bars[i].height >= 0
                 /\ bars[i].height <= 9 * size[2] * LS

\* bars were generated while the analyzer, fed by an analyser, held a loud
\* spectrum whose size differs from the default
C8_Witness ==
    /\ Len(analysers) > 0
    /\ Len(smoothedFrequencyData) # DefaultBinCount
    /\ \E i \in DOMAIN smoothedFrequencyData : smoothedFrequencyData[i] > 0
    /\ generateSpectrumBars(800, 200, smoothedFrequencyData, analysers,
                            actualFFTSize, actualSampleRate)[numBars].height > 0

----------------------------------------------------------------------------
(* Initial state: the constructor (lines 37-42) *)

constructor(list) ==
    updateAnalyserProperties(
        [frequencyData |-> Zeros(DefaultBinCount),
         smoothedFrequencyData |-> Zeros(DefaultBinCount),
         animationFrame |-> Null,
         isAnalyzing |-> FALSE,
         lastUpdateTime |-> 0,
         actualFFTSize |-> DefaultFFTSize,
         actualSampleRate |-> DefaultSampleRate,
         onUpdateCallback |-> Undefined,
         rafQueue |-> {},
         nextFrameId |-> 1,
         depth |-> 0,
         prevUpdateAt |-> -1,
         lastUpdateAt |-> -1], list)

InitAnalyzer ==
    /\ analysers \in AnalyserLists
    /\ now = StartTime
    /\ \E s \in {constructor(analysers)} :
        /\ frequencyData = s.frequencyData
        /\ smoothedFrequencyData = s.smoothedFrequencyData
        /\ animationFrame = s.animationFrame
        /\ isAnalyzing = s.isAnalyzing
        /\ lastUpdateTime = s.lastUpdateTime
        /\ actualFFTSize = s.actualFFTSize
        /\ actualSampleRate = s.actualSampleRate
        /\ onUpdateCallback = s.onUpdateCallback
        /\ rafQueue = s.rafQueue
        /\ nextFrameId = s.nextFrameId
        /\ depth = s.depth
        /\ prevUpdateAt = s.prevUpdateAt
        /\ lastUpdateAt = s.lastUpdateAt
    /\ op = "new"
    /\ arg = Undefined
    /\ disposed = FALSE

----------------------------------------------------------------------------
(* Events *)

InBounds(s) == s.nextFrameId <= MaxFrameId + 1 /\ s.depth <= MaxDepth

\* a call of start(onUpdate), from the application or from inside a callback
Start(onUpdate) ==
    \E sig \in Signals :
        LET r == start(Self, onUpdate, analysers, now, sig)
        IN /\ InBounds(r)
           /\ Commit(r)
           /\ op' = "start" /\ arg' = onUpdate
           /\ disposed' = FALSE
           /\ UNCHANGED <<now, analysers>>
           /\ UNCHANGED <<mvars, qvars>>

Stop ==
    /\ Commit(stop(Self))
    /\ op' = "stop" /\ arg' = Undefined
    /\ UNCHANGED <<now, analysers, disposed, mvars, qvars>>

Dispose ==
    /\ Commit(dispose(Self))
    /\ op' = "dispose" /\ arg' = Undefined
    /\ disposed' = TRUE
    /\ UNCHANGED <<now, analysers, mvars, qvars>>

\* the browser runs the requested frame id; no frame runs while a callback
\* is still executing
FrameFire(id) ==
    /\ depth = 0
    /\ id \in rafQueue
    /\ \E sig \in Signals :
        LET fired == [Self EXCEPT !.rafQueue = @ \ {id}]
            r == updateFrequencyData(fired, analysers, now, sig)
        IN /\ InBounds(r)
           /\ Commit(r)
    /\ op' = "frame" /\ arg' = Undefined
    /\ UNCHANGED <<now, analysers, disposed, mvars, qvars>>

\* the update callback returns: the suspended activation runs line 151
CallbackReturn ==
    /\ depth > 0
    /\ LET r == requestAnimationFrame([Self EXCEPT !.depth = @ - 1])
       IN /\ InBounds(r)
          /\ Commit(r)
    /\ op' = "return" /\ arg' = Undefined
    /\ UNCHANGED <<now, analysers, disposed, mvars, qvars>>

Tick ==
    /\ now + TickStep <= MaxTime
    /\ now' = now + TickStep
    /\ op' = "tick" /\ arg' = Undefined
    /\ UNCHANGED <<frequencyData, smoothedFrequencyData, animationFrame, isAnalyzing,
                   lastUpdateTime, actualFFTSize, actualSampleRate, onUpdateCallback,
                   analysers, rafQueue, nextFrameId, depth,
                   prevUpdateAt, lastUpdateAt, disposed, mvars, qvars>>

\* the audio graph changes between events
SetAnalysers(list) ==
    /\ depth = 0
    /\ list # analysers
    /\ analysers' = list
    /\ op' = "analysers" /\ arg' = Undefined
    /\ UNCHANGED <<frequencyData, smoothedFrequencyData, animationFrame, isAnalyzing,
                   lastUpdateTime, actualFFTSize, actualSampleRate, onUpdateCallback,
                   now, rafQueue, nextFrameId, depth,
                   prevUpdateAt, lastUpdateAt, disposed, mvars, qvars>>

----------------------------------------------------------------------------
(* SpectrumAnalyzer.getSpectrumColor *)

AmpScale == 1000        \* amplitudes in thousandths
HueScale == 40          \* hues in fortieths of a degree: exact in every band
AmplitudeSteps == 20    \* amplitudes sampled evenly over [0, 1]

\* the band boundaries 0.15, 0.35, 0.55, 0.75, 0.9
BandEnds == {(15 * AmpScale) \div 100, (35 * AmpScale) \div 100, (55 * AmpScale) \div 100,
             (75 * AmpScale) \div 100, (90 * AmpScale) \div 100}

\* the normalized amplitudes asked about: an even grid over [0, 1], and each
\* band boundary with its two neighbours
Amplitudes ==
    {(k * AmpScale) \div AmplitudeSteps : k \in 0..AmplitudeSteps}
        \cup UNION {{b - 1, b, b + 1} : b \in BandEnds}

\* hue = from - progress * span, progress = (amplitude - lo) / width
BandHue(amplitude, lo, width, from, span) ==
    from * HueScale - ((amplitude - lo) * span * HueScale) \div width

hsl(hue, saturation, lightness) ==
    [hue |-> hue, saturation |-> saturation, lightness |-> lightness]

\* variant: the third band descends by 20 degrees instead of 30
getSpectrumColor_shortBand(amplitude) ==
    IF amplitude <= (15 * AmpScale) \div 100
    THEN hsl(140 * HueScale, 100, 50 * AmpScale + amplitude * 200)
    ELSE IF amplitude <= (35 * AmpScale) \div 100
    THEN hsl(BandHue(amplitude, (15 * AmpScale) \div 100, (20 * AmpScale) \div 100, 140, 20),
             100, 65 * AmpScale)
    ELSE IF amplitude <= (55 * AmpScale) \div 100
    THEN hsl(BandHue(amplitude, (35 * AmpScale) \div 100, (20 * AmpScale) \div 100, 120, 20),
             100, 65 * AmpScale)
    ELSE IF amplitude <= (75 * AmpScale) \div 100
    THEN hsl(BandHue(amplitude, (55 * AmpScale) \div 100, (20 * AmpScale) \div 100, 90, 35),
             100, 60 * AmpScale)
    ELSE IF amplitude <= (90 * AmpScale) \div 100
    THEN hsl(BandHue(amplitude, (75 * AmpScale) \div 100, (15 * AmpScale) \div 100, 55, 30),
             100, 55 * AmpScale)
    ELSE hsl(BandHue(amplitude, (90 * AmpScale) \div 100, (10 * AmpScale) \div 100, 25, 25),
             100, 50 * AmpScale)

\* getSpectrumColor (lines 310-341): the hsl() components, the lightness in
\* thousandths of a percent
getSpectrumColor(amplitude) ==
    IF amplitude <= (15 * AmpScale) \div 100
    THEN hsl(140 * HueScale, 100, 50 * AmpScale + amplitude * 200)
    ELSE IF amplitude <= (35 * AmpScale) \div 100
    THEN hsl(BandHue(amplitude, (15 * AmpScale) \div 100, (20 * AmpScale) \div 100, 140, 20),
             100, 65 * AmpScale)
    ELSE IF amplitude <= (55 * AmpScale) \div 100
    THEN hsl(BandHue(amplitude, (35 * AmpScale) \div 100, (20 * AmpScale) \div 100, 120, 30),
             100, 65 * AmpScale)
    ELSE IF amplitude <= (75 * AmpScale) \div 100
    THEN hsl(BandHue(amplitude, (55 * AmpScale) \div 100, (20 * AmpScale) \div 100, 90, 35),
             100, 60 * AmpScale)
    ELSE IF amplitude <= (90 * AmpScale) \div 100
    THEN hsl(BandHue(amplitude, (75 * AmpScale) \div 100, (15 * AmpScale) \div 100, 55, 30),
             100, 55 * AmpScale)
    ELSE hsl(BandHue(amplitude, (90 * AmpScale) \div 100, (10 * AmpScale) \div 100, 25, 25),
             100, 50 * AmpScale)

NoColor == [amplitude |-> -1, color |-> hsl(0, 0, 0)]

\* getSpectrumColor was not called
ColorIdle ==
    /\ spectrumColor = NoColor
    /\ prevSpectrumColor = NoColor

\* a call of the static getSpectrumColor(amplitude)
GetSpectrumColor(amplitude) ==
    /\ prevSpectrumColor' = spectrumColor
    /\ spectrumColor' = [amplitude |-> amplitude, color |-> getSpectrumColor(amplitude)]
    /\ UNCHANGED <<mainWindow, outputs, screensType, sourcesPromise, screensPromise>>
    /\ UNCHANGED <<avars, mvars>>

NextColor == \E amplitude \in Amplitudes : GetSpectrumColor(amplitude)

----------------------------------------------------------------------------
(* Main process: getScreens (responsesMain) *)

MaxSources == 2         \* sources one getSources call returns
MaxOutputs == 2         \* output entries of OutputHelper.getAllOutputs()

RECURSIVE SeqsUpTo(_, _)
SeqsUpTo(S, n) ==
    IF n = 0 THEN {<< >>}
    ELSE LET shorter == SeqsUpTo(S, n - 1)
         IN shorter \cup {Append(q, x) : q \in shorter, x \in S}

\* BrowserWindow | null
NullWindow == [null |-> TRUE, title |-> "", mediaSourceId |-> ""]
BrowserWindows ==
    {[null |-> FALSE, title |-> "FreeShow", mediaSourceId |-> "window:1:0"],
     [null |-> FALSE, title |-> "Output", mediaSourceId |-> "window:2:0"],
     [null |-> FALSE, title |-> "Stage", mediaSourceId |-> "window:3:0"]}
MainWindow == [null |-> FALSE, title |-> "FreeShow", mediaSourceId |-> "window:1:0"]

\* window?.getMediaSourceId(), window?.getTitle()
getMediaSourceId(window) == IF window.null THEN Undefined ELSE window.mediaSourceId
getTitle(window) == IF window.null THEN Undefined ELSE window.title

\* the outputs of OutputHelper: each has a window or none
Outputs == {[window |-> w] : w \in (BrowserWindows \ {MainWindow}) \cup {NullWindow}}

\* what desktopCapturer can capture, by type
DesktopCapturerSources(type) ==
    IF type = "window"
    THEN {[name |-> "FreeShow", id |-> "window:1:0"],
          [name |-> "Output", id |-> "window:2:0"],
          [name |-> "Terminal", id |-> "window:7:0"]}
    ELSE {[name |-> "Screen 1", id |-> "screen:0:0"],
          [name |-> "Screen 2", id |-> "screen:1:0"]}

\* the lists getSources({ types: [type] }) can resolve with: distinct sources
getSources(type) ==
    {q \in SeqsUpTo(DesktopCapturerSources(type), MaxSources) :
        \A i, j \in 1..Len(q) : q[i] = q[j] => i = j}

NoPromise == [state |-> "none", value |-> << >>]
Pending == [state |-> "pending", value |-> << >>]
Fulfilled(value) == [state |-> "fulfilled", value |-> value]
Rejected == [state |-> "rejected", value |-> << >>]

\* sources.map((source) => screens.push({ name: source.name, id: source.id }))
RECURSIVE PushSources(_, _)
PushSources(screens, sources) ==
    IF sources = << >> THEN screens
    ELSE PushSources(Append(screens, [name |-> Head(sources).name, id |-> Head(sources).id]),
                     Tail(sources))

\* windows.push(output.window) for every output that has a window
RECURSIVE OutputWindows(_)
OutputWindows(outs) ==
    IF outs = << >> THEN << >>
    ELSE IF Head(outs).window.null THEN OutputWindows(Tail(outs))
    ELSE << Head(outs).window >> \o OutputWindows(Tail(outs))

\* the forEach of lines 341-347
RECURSIVE PushWindows(_, _, _)
PushWindows(screens, sources, windows) ==
    IF windows = << >> THEN screens
    ELSE LET window == Head(windows)
             mediaId == getMediaSourceId(window)
             windowsAlreadyExists == \E i \in 1..Len(sources) : sources[i].id = mediaId
         IN PushWindows(IF windowsAlreadyExists THEN screens
                        ELSE Append(screens, [name |-> getTitle(window), id |-> mediaId]),
                        sources, Tail(windows))

addFreeShowWindows(screens, sources, main, outs) ==
    PushWindows(screens, sources, << main >> \o OutputWindows(outs))

\* variant: the type test of line 326 is missing
getScreens_then_anyType(type, sources, main, outs) ==
    Fulfilled(addFreeShowWindows(PushSources(<< >>, sources), sources, main, outs))

\* the .then handler (lines 323-329): the value getScreens resolves with
getScreens_then(type, sources, main, outs) ==
    LET screens == PushSources(<< >>, sources)
    IN Fulfilled(IF type = "window"
                 THEN addFreeShowWindows(screens, sources, main, outs)
                 ELSE screens)

\* the .catch handler (lines 330-333)
getScreens_catch == Fulfilled(<< >>)

\* no getScreens call was made; the main window is open, no output exists
ScreensIdle ==
    /\ mainWindow = MainWindow
    /\ outputs = << >>
    /\ screensType = Undefined
    /\ sourcesPromise = NoPromise
    /\ screensPromise = NoPromise

InitScreens ==
    /\ mainWindow \in {MainWindow, NullWindow}
    /\ outputs \in SeqsUpTo(Outputs, MaxOutputs)
    /\ screensType = Undefined
    /\ sourcesPromise = NoPromise
    /\ screensPromise = NoPromise

\* getScreens(type) is called (Main.GET_SCREENS, Main.GET_WINDOWS), the
\* previous call being settled
GetScreens(type) ==
    /\ sourcesPromise.state # "pending"
    /\ screensType' = type
    /\ sourcesPromise' = Pending
    /\ screensPromise' = Pending
    /\ UNCHANGED <<mainWindow, outputs, spectrumColor, prevSpectrumColor>>
    /\ UNCHANGED <<avars, mvars>>

\* desktopCapturer resolves with the sources; the .then handler runs
SourcesFulfilled(sources) ==
    /\ sourcesPromise.state = "pending"
    /\ sourcesPromise' = Fulfilled(sources)
    /\ screensPromise' = getScreens_then(screensType, sources, mainWindow, outputs)
    /\ UNCHANGED <<mainWindow, outputs, screensType, spectrumColor, prevSpectrumColor>>
    /\ UNCHANGED <<avars, mvars>>

\* desktopCapturer rejects; the .catch handler runs
SourcesRejected ==
    /\ sourcesPromise.state = "pending"
    /\ sourcesPromise' = Rejected
    /\ screensPromise' = getScreens_catch
    /\ UNCHANGED <<mainWindow, outputs, screensType, spectrumColor, prevSpectrumColor>>
    /\ UNCHANGED <<avars, mvars>>

NextScreens ==
    \/ \E type \in {"screen", "window"} : GetScreens(type)
    \/ \E sources \in getSources(screensType) : SourcesFulfilled(sources)
    \/ SourcesRejected

----------------------------------------------------------------------------
(* Main process: saveRecording, logError, catchErrors (responsesMain) *)

MaxCalls == 3           \* main-process operations in one behaviour
InitSlack == 1          \* a persisted log starts InitSlack entries below the cap

maxLogLength == 250

Keys == {"main", "renderer", "request"}

\* strings are sequences of tokens; String.prototype.includes is the
\* contiguous-subsequence test
ERROR_FILTER == { <<"ENOENT:", "no such file or directory">> }

includes(str, a) ==
    \E i \in 0..(Len(str) - Len(a)) : SubSeq(str, i + 1, i + Len(a)) = a

\* variant: the message must start with the filter text
startsWith(str, a) ==
    Len(str) >= Len(a) /\ SubSeq(str, 1, Len(a)) = a

\* err.message of the exceptions that reach the handler
Messages ==
    { <<"boom">>,
      <<"ENOENT:", "no such file or directory">>,
      <<"open", "ENOENT:">>,
      <<"Error:", "ENOENT:", "no such file or directory", "open">>,
      <<"ENOENT:", "open", "no such file or directory">> }

\* msg.path and msg.name of a recording
Paths == {Undefined, "D:/shows"}
Names == {"rec.webm", "take2.webm"}

\* getDataFolder(msg.path || "", dataFolderNames.recordings)
getDataFolder(p) == << IF p = Undefined THEN "" ELSE p, "recordings" >>

\* path.join(folder, name)
join(folder, name) == Append(folder, name)

\* the object passed to logError by the renderer
RendererLog(t) ==
    [time |-> t, type |-> "renderer", source |-> "app", message |-> <<"boom">>, dev |-> FALSE]

\* an entry persisted by an earlier session
PersistedLog(i) ==
    [time |-> i - maxLogLength, type |-> "renderer", source |-> "app", message |-> <<"boom">>, dev |-> FALSE]

createLog(message, t) ==
    [time |-> t, type |-> "Uncaught Exception", source |-> "See stack", message |-> message, dev |-> FALSE]

\* variant: slice keeps the first maxLogLength entries
logError_keepOldest(store, log, key, prod) ==
    LET entry == IF ~prod THEN [log EXCEPT !.dev = TRUE] ELSE log
        previousLog == IF key \in DOMAIN store THEN store[key] ELSE <<>>
        pushed == Append(previousLog, entry)
        capped == IF Len(pushed) > maxLogLength
                  THEN SubSeq(pushed, 1, maxLogLength)
                  ELSE pushed
    IN [k \in DOMAIN store \cup {key} |-> IF k = key THEN capped ELSE store[k]]

\* logError (lines 371-384); error_log.set({[key]: previousLog}) replaces the
\* value stored under key and keeps the other keys
logError(store, log, key, prod) ==
    LET entry == IF ~prod THEN [log EXCEPT !.dev = TRUE] ELSE log
        previousLog == IF key \in DOMAIN store THEN store[key] ELSE <<>>
        pushed == Append(previousLog, entry)
        capped == IF Len(pushed) > maxLogLength
                  THEN SubSeq(pushed, Len(pushed) - maxLogLength + 1, Len(pushed))
                  ELSE pushed
    IN IF Len(capped) = 0 THEN store
       ELSE [k \in DOMAIN store \cup {key} |-> IF k = key THEN capped ELSE store[k]]

\* variant of the handler: prefix test instead of includes
uncaughtException_prefix(store, message, t, prod) ==
    IF \E a \in ERROR_FILTER : startsWith(message, a) THEN store
    ELSE logError(store, createLog(message, t), "main", prod)

\* the handler registered at line 390
uncaughtException(store, message, t, prod) ==
    IF \E a \in ERROR_FILTER : includes(message, a) THEN store
    ELSE logError(store, createLog(message, t), "main", prod)

RECURSIVE runHandlers(_, _, _, _, _)
runHandlers(n, store, message, t, prod) ==
    IF n = 0 THEN store
    ELSE runHandlers(n - 1, uncaughtException(store, message, t, prod), message, t, prod)

\* variant: systemOpened is never set
saveRecording_noFlag(m, msg) ==
    LET folder == getDataFolder(msg.path)
        filePath == join(folder, msg.name)
        w == [m EXCEPT !.written = Append(@, filePath)]
    IN IF ~w.systemOpened
       THEN [w EXCEPT !.opened = Append(@, folder)]
       ELSE w

\* saveRecording (lines 356-367) on [systemOpened, opened, written]
saveRecording(m, msg) ==
    LET folder == getDataFolder(msg.path)
        filePath == join(folder, msg.name)
        w == [m EXCEPT !.written = Append(@, filePath)]
    IN IF ~w.systemOpened
       THEN [w EXCEPT !.opened = Append(@, folder), !.systemOpened = TRUE]
       ELSE w

stored(key) == IF key \in DOMAIN error_log THEN error_log[key] ELSE <<>>

Times(log) == [i \in 1..Len(log) |-> log[i].time]

InitMain ==
    /\ isProd \in BOOLEAN
    /\ \E present \in SUBSET Keys :
        /\ error_log = [k \in present |-> [i \in 1..(maxLogLength - InitSlack) |-> PersistedLog(i)]]
        /\ history = [k \in Keys |-> IF k \in present
                                     THEN [i \in 1..(maxLogLength - InitSlack) |-> i - maxLogLength]
                                     ELSE <<>>]
    /\ systemOpened = FALSE
    /\ handlers = 0
    /\ opened = <<>>
    /\ written = <<>>
    /\ saved = <<>>
    /\ mop = [op |-> "none", key |-> Undefined, message |-> <<>>]
    /\ calls = 0

\* the renderer sends Main.LOG_ERROR, or another module calls logError
LogError(key) ==
    /\ calls < MaxCalls
    /\ calls' = calls + 1
    /\ error_log' = logError(error_log, RendererLog(calls + 1), key, isProd)
    /\ history' = [history EXCEPT ![key] = Append(@, calls + 1)]
    /\ mop' = [op |-> "logError", key |-> key, message |-> <<"boom">>]
    /\ UNCHANGED <<systemOpened, isProd, handlers, opened, written, saved>>
    /\ UNCHANGED <<avars, qvars>>

CatchErrors ==
    /\ calls < MaxCalls
    /\ calls' = calls + 1
    /\ handlers' = handlers + 1
    /\ mop' = [op |-> "catchErrors", key |-> Undefined, message |-> <<>>]
    /\ UNCHANGED <<error_log, systemOpened, isProd, opened, written, saved, history>>
    /\ UNCHANGED <<avars, qvars>>

\* an exception reaches the process: every registered listener runs
UncaughtException(message) ==
    /\ calls < MaxCalls
    /\ calls' = calls + 1
    /\ error_log' = runHandlers(handlers, error_log, message, calls + 1, isProd)
    /\ history' = [history EXCEPT !["main"] =
                      IF error_log' = error_log THEN @
                      ELSE @ \o [i \in 1..handlers |-> calls + 1]]
    /\ mop' = [op |-> "exception", key |-> "main", message |-> message]
    /\ UNCHANGED <<systemOpened, isProd, handlers, opened, written, saved>>
    /\ UNCHANGED <<avars, qvars>>

SaveRecording(msg) ==
    /\ calls < MaxCalls
    /\ calls' = calls + 1
    /\ LET r == saveRecording([systemOpened |-> systemOpened, opened |-> opened,
                               written |-> written], msg)
       IN /\ systemOpened' = r.systemOpened
          /\ opened' = r.opened
          /\ written' = r.written
    /\ saved' = Append(saved, msg)
    /\ mop' = [op |-> "saveRecording", key |-> Undefined, message |-> <<>>]
    /\ UNCHANGED <<error_log, isProd, handlers, history>>
    /\ UNCHANGED <<avars, qvars>>

NextMain ==
    \/ \E key \in Keys : LogError(key)
    \/ CatchErrors
    \/ \E message \in Messages : UncaughtException(message)
    \/ \E msg \in [path : Paths, name : Names] : SaveRecording(msg)

\* the main process before any of its operations ran
MainIdle ==
    /\ isProd = TRUE
    /\ error_log = << >>
    /\ history = [k \in Keys |-> <<>>]
    /\ systemOpened = FALSE
    /\ handlers = 0
    /\ opened = <<>>
    /\ written = <<>>
    /\ saved = <<>>
    /\ mop = [op |-> "none", key |-> Undefined, message |-> <<>>]
    /\ calls = 0

\* the main process next to an analyzer that is never started
MainInit == InitMain /\ InitAnalyzer /\ analysers = << >> /\ ScreensIdle /\ ColorIdle

SpecMain == MainInit /\ [][NextMain]_vars

----------------------------------------------------------------------------
(* Properties of the main-process helpers *)

Min(a, b) == IF a < b THEN a ELSE b

\* the last n elements of seq
Suffix(seq, n) == SubSeq(seq, Len(seq) - n + 1, Len(seq))

\* C5 (error log cap): the log stored under each key holds at most
\* maxLogLength entries, and they are exactly the most recent entries logged
\* under that key, oldest first; a logError call for one key leaves the logs
\* of the other keys as they were.
C5_LogCap ==
    /\ [](\A k \in Keys :
            /\ Len(stored(k)) <= maxLogLength
            /\ Times(stored(k)) = Suffix(history[k], Min(maxLogLength, Len(history[k]))))
    /\ [][ (calls' # calls /\ mop'.op = "logError")
            => \A k \in Keys \ {mop'.key} :
                  /\ (k \in DOMAIN error_log') = (k \in DOMAIN error_log)
                  /\ k \in DOMAIN error_log => error_log'[k] = error_log[k] ]_vars

\* a logError call pushed a key's log over the cap while another key holds a log
C5_Witness ==
    /\ mop.op = "logError"
    /\ Len(history[mop.key]) > maxLogLength
    /\ \E k \in Keys \ {mop.key} : Len(stored(k)) > 0

\* C6: over any sequence of saveRecording calls openInSystem is called
\* exactly once, in the first call and with that call's folder, and every
\* call writes its file to path.join(folder, msg.name).
C6_OpenOnce ==
    /\ Len(opened) = (IF Len(saved) >= 1 THEN 1 ELSE 0)
    /\ Len(saved) >= 1 => opened[1] = getDataFolder(saved[1].path)
    /\ Len(written) = Len(saved)
    /\ \A i \in 1..Len(saved) :
          written[i] = getDataFolder(saved[i].path) \o <<saved[i].name>>

\* several recordings were saved, to different folders
C6_Witness ==
    /\ Len(saved) >= 2
    /\ saved[1].path # saved[2].path
    /\ Len(written) >= 2

Described(log) == [i \in 1..Len(log) |-> <<log[i].time, log[i].type, log[i].message>>]

\* C9: with the handler of catchErrors installed, an uncaught exception is
\* appended to the log under "main" (once per installed handler, the oldest
\* entries giving way at the cap) if and only if its message does not contain
\* the ENOENT text; a filtered exception leaves the whole store unchanged, a
\* logged one leaves the other keys unchanged.
C9_UncaughtLogged ==
    [][ (calls' # calls /\ mop'.op = "exception" /\ handlers >= 1)
         => LET message == mop'.message
                filtered == \E i \in 1..Len(message) :
                               /\ i < Len(message)
                               /\ message[i] = "ENOENT:"
                               /\ message[i + 1] = "no such file or directory"
                e == <<calls', "Uncaught Exception", message>>
                all == Described(stored("main")) \o [i \in 1..handlers |-> e]
            IN IF filtered
               THEN error_log' = error_log
               ELSE /\ "main" \in DOMAIN error_log'
                    /\ Described(error_log'["main"]) = Suffix(all, Min(maxLogLength, Len(all)))
                    /\ \A k \in Keys \ {"main"} :
                          /\ (k \in DOMAIN error_log') = (k \in DOMAIN error_log)
                          /\ k \in DOMAIN error_log => error_log'[k] = error_log[k] ]_vars

\* an exception whose message contains the ENOENT text after other text
\* reached the installed handler
C9_Witness ==
    /\ mop.op = "exception"
    /\ handlers >= 1
    /\ mop.message = <<"Error:", "ENOENT:", "no such file or directory", "open">>

----------------------------------------------------------------------------
Init == InitAnalyzer /\ MainIdle /\ ScreensIdle /\ ColorIdle

Next ==
    \/ \E cb \in Callbacks \cup {Undefined} : Start(cb)
    \/ Stop
    \/ Dispose
    \/ \E id \in rafQueue : FrameFire(id)
    \/ CallbackReturn
    \/ Tick
    \/ \E list \in AnalyserLists : SetAnalysers(list)

Spec == Init /\ [][Next]_vars

----------------------------------------------------------------------------
(* Properties of the analyzer's animation loop *)

AllZero(a) == \A i \in DOMAIN a : a[i] = 0

\* C1 (throttling): any two consecutive frequency-data updates are at least
\* updateInterval ms apart, and a frame that fires sooner than that after the
\* last update changes no data (arrays, lastUpdateTime, callback, running
\* flag), invokes no callback and, while the analyzer runs, only replaces
\* itself by one newly requested frame.
C1_Throttling ==
    /\ [](prevUpdateAt # -1 => lastUpdateAt - prevUpdateAt >= updateInterval)
    /\ [][ (op' = "frame" /\ lastUpdateAt # -1 /\ now - lastUpdateAt < updateInterval)
            => /\ UNCHANGED <<frequencyData, smoothedFrequencyData, lastUpdateTime,
                              lastUpdateAt, prevUpdateAt, onUpdateCallback,
                              isAnalyzing, depth>>
               /\ isAnalyzing =>
                    /\ nextFrameId' = nextFrameId + 1
                    /\ animationFrame' = nextFrameId
                    /\ nextFrameId \in rafQueue'
                    /\ Cardinality(rafQueue') = Cardinality(rafQueue) ]_vars

\* two updates happened and a frame then fired too early and was throttled
C1_Witness ==
    /\ prevUpdateAt # -1
    /\ op = "frame"
    /\ isAnalyzing
    /\ now - lastUpdateAt < updateInterval
    /\ animationFrame = nextFrameId - 1

\* C2: start() while the analyzer is running changes nothing: the running
\* flag stays true, the registered callback is kept, the arrays are not
\* resized and no frame is requested.
C2_StartWhileRunning ==
    [][ (op' = "start" /\ isAnalyzing)
         => /\ isAnalyzing'
            /\ UNCHANGED <<onUpdateCallback, frequencyData, smoothedFrequencyData,
                           rafQueue, nextFrameId, animationFrame, depth,
                           lastUpdateTime, actualFFTSize, actualSampleRate>> ]_vars

\* start(cb) was called while running under another callback, and the
\* analyser's bin count differs from the arrays' length
C2_Witness ==
    /\ op = "start"
    /\ isAnalyzing
    /\ arg # onUpdateCallback
    /\ arg \in Callbacks
    /\ onUpdateCallback \in Callbacks
    /\ Len(analysers) > 0
    /\ Len(frequencyData) # analysers[1].frequencyBinCount

\* C3: after stop() the analyzer is not running and has no callback; while
\* it is not running, until the next start(), no callback is invoked and the
\* smoothed data is not modified by any frame or callback return (dispose(),
\* which clears the data itself, is the only operation that touches it).
C3_StopStops ==
    /\ [](op = "stop" => ~isAnalyzing /\ onUpdateCallback = Undefined)
    /\ [][ (~isAnalyzing /\ op' # "start")
            => /\ ~isAnalyzing'
               /\ depth' <= depth
               /\ onUpdateCallback' = Undefined
               /\ (smoothedFrequencyData' = smoothedFrequencyData \/ op' = "dispose") ]_vars

\* a frame that was requested after stop() was called inside the callback
\* fired while the analyzer was stopped, an analyser being present
C3_Witness ==
    /\ op = "frame"
    /\ ~isAnalyzing
    /\ ~disposed
    /\ lastUpdateAt # -1
    /\ Len(analysers) > 0
    /\ now - lastUpdateTime >= updateInterval

\* C4: from dispose() until the next start() the analyzer is not running and
\* every entry of the raw and of the smoothed array is 0.
C4_DisposeClears ==
    disposed => /\ ~isRunning
                /\ AllZero(frequencyData)
                /\ AllZero(getFrequencyData)

\* a frame left pending by a dispose() inside the callback fired afterwards,
\* late enough for an update
C4_Witness ==
    /\ disposed
    /\ op = "frame"
    /\ lastUpdateAt # -1
    /\ Len(analysers) > 0
    /\ now - lastUpdateTime >= updateInterval

\* C10 (single animation loop): at most one outstanding frame while running,
\* none while not running.
C10_SingleLoop ==
    Cardinality(rafQueue) <= IF isAnalyzing THEN 1 ELSE 0

\* C11: the raw and the smoothed array always have the same length; right
\* after an update that found an analyser that length is the analyser's
\* frequencyBinCount; and whenever the length changes, both arrays were
\* replaced by all-zero arrays of the new length: the step leaves either those
\* zeros or the first sample smoothed onto a zero history.
C11_ArraysResizeTogether ==
    /\ [](Len(frequencyData) = Len(smoothedFrequencyData))
    /\ [][ (lastUpdateAt' # lastUpdateAt /\ Len(analysers) > 0)
            => Len(frequencyData') = analysers[1].frequencyBinCount ]_vars
    /\ [][ Len(frequencyData') # Len(frequencyData)
            => /\ Len(smoothedFrequencyData') = Len(frequencyData')
               /\ \A i \in 1..Len(frequencyData') :
                    smoothedFrequencyData'[i] = Smooth(frequencyData'[i], 0) ]_vars

\* the analyser was exchanged for one of another bin count after start(), and
\* a later frame's update, not the first one, resized the arrays and sampled
\* a signal into them
C11_Witness ==
    /\ op = "frame"
    /\ lastUpdateAt = now
    /\ prevUpdateAt # -1
    /\ Len(analysers) > 0
    /\ actualFFTSize # analysers[1].fftSize
    /\ Len(frequencyData) = analysers[1].frequencyBinCount
    /\ \E i \in 1..Len(smoothedFrequencyData) : smoothedFrequencyData[i] > 0

\* the clock read once per update interval
TickInterval ==
    /\ now + updateInterval <= MaxTime
    /\ now' = now + updateInterval
    /\ op' = "tick" /\ arg' = Undefined
    /\ UNCHANGED <<frequencyData, smoothedFrequencyData, animationFrame, isAnalyzing,
                   lastUpdateTime, actualFFTSize, actualSampleRate, onUpdateCallback,
                   analysers, rafQueue, nextFrameId, depth,
                   prevUpdateAt, lastUpdateAt, disposed, mvars, qvars>>

\* the analyzer driven without an update callback, the clock observed once
\* per update interval
NextBars ==
    \/ Start(Undefined)
    \/ Stop
    \/ Dispose
    \/ \E id \in rafQueue : FrameFire(id)
    \/ TickInterval
    \/ \E list \in AnalyserLists : SetAnalysers(list)

SpecBars == Init /\ [][NextBars]_vars

----------------------------------------------------------------------------
(* getScreens *)

ScreensInit ==
    InitScreens /\ InitAnalyzer /\ analysers = << >> /\ MainIdle /\ ColorIdle

SpecScreens == ScreensInit /\ [][NextScreens]_vars

\* the windows getScreens("window") considers, the main window first
FreeShowWindows ==
    << mainWindow >> \o
        LET withWindow == SelectSeq(outputs, LAMBDA output : ~output.window.null)
        IN [i \in 1..Len(withWindow) |-> withWindow[i].window]

\* C12: the promise getScreens returned is never rejected and is settled as
\* soon as desktopCapturer's promise is: with the empty list when that one
\* was rejected; otherwise with one {name, id} entry per source, in source
\* order, followed for type "window" (and only then) by an entry for the main
\* window and for each output window, in that order, whose media source id
\* is not the id of one of the sources.
C12_GetScreensResolves ==
    /\ screensPromise.state # "rejected"
    /\ screensPromise.state = "pending" <=> sourcesPromise.state = "pending"
    /\ sourcesPromise.state = "rejected"
        => screensPromise = [state |-> "fulfilled", value |-> << >>]
    /\ sourcesPromise.state = "fulfilled"
        => LET sources == sourcesPromise.value
               screens == screensPromise.value
               n == Len(sources)
               NotASource(window) ==
                   \A i \in 1..n : sources[i].id # getMediaSourceId(window)
               added == SelectSeq(FreeShowWindows, NotASource)
           IN /\ screensPromise.state = "fulfilled"
              /\ Len(screens) >= n
              /\ \A i \in 1..n :
                    screens[i] = [name |-> sources[i].name, id |-> sources[i].id]
              /\ Len(screens) = n + (IF screensType = "window" THEN Len(added) ELSE 0)
              /\ \A i \in 1..(Len(screens) - n) :
                    screens[n + i] = [name |-> getTitle(added[i]),
                                      id |-> getMediaSourceId(added[i])]

\* getScreens("window") resolved with two sources, one of them the main
\* window itself, and added an output window that is not among the sources
C12_Witness ==
    /\ screensType = "window"
    /\ sourcesPromise.state = "fulfilled"
    /\ screensPromise.state = "fulfilled"
    /\ Len(sourcesPromise.value) = 2
    /\ \E i \in 1..2 : sourcesPromise.value[i].id = getMediaSourceId(mainWindow)
    /\ Len(screensPromise.value) = 3
    /\ screensPromise.value[3].name = "Stage"

----------------------------------------------------------------------------
(* getSpectrumColor *)

ColorInit ==
    ColorIdle /\ InitAnalyzer /\ analysers = << >> /\ MainIdle /\ ScreensIdle

SpecColor == ColorInit /\ [][NextColor]_vars

\* the steepest band: 25 degrees over 0.1
MaxHueStep == (25 * HueScale * 10) \div AmpScale

\* C13: for an amplitude in [0, 1] the hue lies in [0, 140] and the
\* saturation is 100%; the hue is 140, 120, 90, 55, 25 at the boundaries 0.15,
\* 0.35, 0.55, 0.75, 0.9 and 0 at amplitude 1; of two calls the one with the
\* larger amplitude never has the larger hue; and the hue does not jump: two
\* amplitudes 0.001 apart, on either side of a boundary too, differ in hue
\* by no more than the steepest band's slope allows.
C13_HueDescends ==
    spectrumColor.amplitude # -1 =>
        LET a == spectrumColor.amplitude
            hue == spectrumColor.color.hue
            before == prevSpectrumColor
        IN /\ 0 <= hue /\ hue <= 140 * HueScale
           /\ spectrumColor.color.saturation = 100
           /\ a = (15 * AmpScale) \div 100 => hue = 140 * HueScale
           /\ a = (35 * AmpScale) \div 100 => hue = 120 * HueScale
           /\ a = (55 * AmpScale) \div 100 => hue = 90 * HueScale
           /\ a = (75 * AmpScale) \div 100 => hue = 55 * HueScale
           /\ a = (90 * AmpScale) \div 100 => hue = 25 * HueScale
           /\ a = AmpScale => hue = 0
           /\ (before.amplitude # -1 /\ before.amplitude <= a) => hue <= before.color.hue
           /\ (before.amplitude # -1 /\ a - before.amplitude = 1)
                => before.color.hue - hue <= MaxHueStep

\* the colour at the boundary 0.55 and then the colour just above it, in the
\* next band
C13_Witness ==
    /\ prevSpectrumColor.amplitude = (55 * AmpScale) \div 100
    /\ spectrumColor.amplitude = (55 * AmpScale) \div 100 + 1
    /\ spectrumColor.color.hue < prevSpectrumColor.color.hue
    /\ spectrumColor.color.lightness # prevSpectrumColor.color.lightness

====
